---- MODULE Spec2Model ----
(***************************************************************************)
(* The in-memory catalog service of src/main.py: three dicts (products_db, *)
(* reviews_db, offers_db) and the seven request handlers over them.  A     *)
(* request is validated against the handler's parameter types before the   *)
(* handler body runs (the pydantic models and Query constraints of the     *)
(* signatures), so every action is validation followed by the body.        *)
(***************************************************************************)
EXTENDS Integers, Sequences, FiniteSets

VARIABLES
    products_db,    \* dict product_id -> Product, in insertion order
    reviews_db,     \* dict review_id -> ProductReview, in insertion order
    offers_db,      \* dict offer_id -> Offer, in insertion order
    now,            \* the reading datetime.utcnow() gives to the next request
    response,       \* the last request and what it returned
    before,         \* history: the dicts as that request found them
    created_ids,    \* history: product_id of every successful create_product
    creation_order, \* history: stored review_ids, oldest creation first
    origin,         \* history: review/offer id -> the call that stored it
    ever_removed,   \* history: ids remove_old_product has deleted
    removed         \* history: those of them not created again since

vars == <<products_db, reviews_db, offers_db, now, response, before,
          created_ids, creation_order, origin, ever_removed, removed>>

-----------------------------------------------------------------------------
(* Bounds of the model. *)

\* number of state-changing requests in a run (each one advances the clock)
MaxClock == 4
\* largest skip of a list request
MaxSkip == 1
\* largest limit of a list request
MaxLimit == 2

-----------------------------------------------------------------------------
(* JSON values of a request body: a field is absent, a string or a number. *)

Absent == [kind |-> "absent", val |-> ""]
Str(s) == [kind |-> "string", val |-> s]
Num(n) == [kind |-> "number", val |-> n]

IsAbsent(v) == v.kind = "absent"
\* pydantic: a str field takes a JSON string
IsStr(v) == v.kind = "string"
\* pydantic: a float field takes a JSON number
IsFloat(v) == v.kind = "number"
\* pydantic: an int field takes a JSON number (the numbers used are whole)
IsInt(v) == v.kind = "number"
\* pydantic: a datetime field takes a timestamp
IsDatetime(v) == v.kind = "number"

-----------------------------------------------------------------------------
(* A Python dict: keys in insertion order, assignment to a present key      *)
(* replaces the value in place, assignment to a new key appends.            *)

DictKeys(d) == {d[i].key : i \in 1..Len(d)}
DictHas(d, k) == k \in DictKeys(d)
DictIndex(d, k) == CHOOSE i \in 1..Len(d) : d[i].key = k
DictGetFirst(d, k) == d[1].value
DictGet(d, k) == d[DictIndex(d, k)].value
DictSet(d, k, v) ==
    IF DictHas(d, k)
    THEN [d EXCEPT ![DictIndex(d, k)] = [key |-> k, value |-> v]]
    ELSE Append(d, [key |-> k, value |-> v])
DictDelKeep(d, k) == d
DictDelOthers(d, k) == SelectSeq(d, LAMBDA e : e.key = k)
DictDel(d, k) == SelectSeq(d, LAMBDA e : e.key # k)
DictValues(d) == [i \in 1..Len(d) |-> d[i].value]

\* s[lo:hi] for 0 <= lo
Slice(s, lo, hi) ==
    LET top == IF hi < Len(s) THEN hi ELSE Len(s)
    IN  IF lo >= top THEN <<>> ELSE SubSeq(s, lo + 1, top)

-----------------------------------------------------------------------------
(* Identifiers. *)

\* results of generate_alphanumeric_id(): 8 letters and digits
AlphanumericIds == {"Ab3dE9x1", "Zk81mQp0"}
\* results of str(uuid4())
Uuids == {"6f1c-a", "9b7e-b"}
\* the product_id a body carries when it carries one
BodyProductIds == {"Ab3dE9x1"}
\* the product_ids of the request paths
PathProductIds == AlphanumericIds

-----------------------------------------------------------------------------
(* The pydantic models: validation of a body and the object it builds.      *)

\* class Product: the fields a body must carry and their types
ValidProduct(b) ==
    /\ IsAbsent(b.product_id) \/ IsStr(b.product_id)
    /\ IsStr(b.name)
    /\ IsStr(b.description)
    /\ IsFloat(b.price)
    /\ IsStr(b.created_by)
    /\ IsAbsent(b.created_date) \/ IsDatetime(b.created_date)
    /\ IsAbsent(b.updated_by) \/ IsStr(b.updated_by)
    /\ IsAbsent(b.updated_date) \/ IsDatetime(b.updated_date)

\* Product(**body): defaults fill the absent fields
Product(b, generated_id, utcnow) ==
    [product_id   |-> IF IsAbsent(b.product_id) THEN generated_id
                      ELSE b.product_id.val,
     name         |-> b.name.val,
     description  |-> b.description.val,
     price        |-> b.price.val,
     created_by   |-> b.created_by.val,
     created_date |-> IF IsAbsent(b.created_date) THEN utcnow
                      ELSE b.created_date.val,
     updated_by   |-> b.updated_by,
     updated_date |-> b.updated_date]

\* class ProductReview
ValidProductReview(b) ==
    /\ IsAbsent(b.review_id) \/ IsStr(b.review_id)
    /\ IsStr(b.product_id)
    /\ IsStr(b.review)
    /\ IsInt(b.rating)
    /\ IsStr(b.created_by)
    /\ IsAbsent(b.created_date) \/ IsDatetime(b.created_date)

ProductReview(b, generated_id, utcnow) ==
    [review_id    |-> IF IsAbsent(b.review_id) THEN generated_id
                      ELSE b.review_id.val,
     product_id   |-> b.product_id.val,
     review       |-> b.review.val,
     rating       |-> b.rating.val,
     created_by   |-> b.created_by.val,
     created_date |-> IF IsAbsent(b.created_date) THEN utcnow
                      ELSE b.created_date.val]

\* class Offer
ValidOffer(b) ==
    /\ IsAbsent(b.offer_id) \/ IsStr(b.offer_id)
    /\ IsStr(b.product_id)
    /\ IsStr(b.description)
    /\ IsFloat(b.discount)
    /\ IsStr(b.created_by)
    /\ IsAbsent(b.created_date) \/ IsDatetime(b.created_date)

Offer(b, generated_id, utcnow) ==
    [offer_id     |-> IF IsAbsent(b.offer_id) THEN generated_id
                      ELSE b.offer_id.val,
     product_id   |-> b.product_id.val,
     description  |-> b.description.val,
     discount     |-> b.discount.val,
     created_by   |-> b.created_by.val,
     created_date |-> IF IsAbsent(b.created_date) THEN utcnow
                      ELSE b.created_date.val]

\* Query(0, ge=0) and Query(10, gt=0)
ValidQuery(skip, limit) == skip >= 0 /\ limit > 0

-----------------------------------------------------------------------------
(* The request bodies the model sends. *)

\* the body of create_test_product, and of the tests that break it
TestProductBody ==
    [product_id |-> Absent, name |-> Str("Test Product"),
     description |-> Str("This is a test product"), price |-> Num(1999),
     created_by |-> Str("tester"), created_date |-> Absent,
     updated_by |-> Absent, updated_date |-> Absent]
\* the update_data of test_update_product, by another author and with its own
\* created_date and updated_date
UpdateProductBody ==
    [product_id |-> Str("Zk81mQp0"), name |-> Str("Updated Product"),
     description |-> Str("This is an updated test product"),
     price |-> Num(2999), created_by |-> Str("someone else"),
     created_date |-> Num(0), updated_by |-> Str("updater"),
     updated_date |-> Num(0)]
InvalidPriceBody ==
    [TestProductBody EXCEPT !.product_id = Str("Ab3dE9x1"),
                            !.price = Str("invalid_price")]
MissingNameBody ==
    [TestProductBody EXCEPT !.product_id = Str("Ab3dE9x1"), !.name = Absent]

\* bodies sent to POST /products
CreateBodies ==
    {[TestProductBody EXCEPT !.product_id = id] :
        id \in {Absent} \cup {Str(p) : p \in BodyProductIds}}
    \cup {InvalidPriceBody, MissingNameBody}
\* bodies sent to PUT /products/{product_id}
UpdateBodies ==
    {UpdateProductBody,
     [UpdateProductBody EXCEPT !.price = Str("invalid_price")]}

\* the body of create_test_review for some product, and variations
TestReviewBody ==
    [review_id |-> Absent, product_id |-> Str("Ab3dE9x1"),
     review |-> Str("Great product!"), rating |-> Num(5),
     created_by |-> Str("tester"), created_date |-> Absent]
OtherReviewBody ==
    [TestReviewBody EXCEPT !.review = Str("Not for me"), !.rating = Num(1)]
InvalidRatingBody ==
    [TestReviewBody EXCEPT !.review_id = Str("6f1c-a"),
                           !.rating = Str("invalid_rating")]
MissingReviewBody ==
    [TestReviewBody EXCEPT !.review_id = Str("6f1c-a"), !.review = Absent]

ReviewBodies ==
    {TestReviewBody, [OtherReviewBody EXCEPT !.review_id = Str("6f1c-a")],
     InvalidRatingBody, MissingReviewBody}

\* the body of create_test_offer, and variations
TestOfferBody ==
    [offer_id |-> Absent, product_id |-> Str("Ab3dE9x1"),
     description |-> Str("20% off"), discount |-> Num(20),
     created_by |-> Str("tester"), created_date |-> Absent]
InvalidDiscountBody ==
    [TestOfferBody EXCEPT !.offer_id = Str("6f1c-a"),
                          !.discount = Str("a lot")]

OfferBodies ==
    {[TestOfferBody EXCEPT !.offer_id = Str("6f1c-a")], InvalidDiscountBody}

\* Field(default_factory=...): the factory runs only for an absent field.  A
\* random id (8 of 62 characters, or a uuid4) is taken to be one the service
\* has not seen: the model draws it outside the ids in use.
DefaultFactory(field, results, in_use) ==
    IF IsAbsent(field) THEN results \ in_use ELSE {field.val}

-----------------------------------------------------------------------------
(* Responses and the history the claims are stated over. *)

NoPath == "-"
NoBody == [kind |-> "absent"]
\* follows: what the request just before returned, when that request was a
\* successful create_product (kept for fetch_product only)
Reply(op, path_id, args, body, status, result, follows) ==
    [op |-> op, path_id |-> path_id, args |-> args, body |-> body,
     status |-> status, result |-> result, follows |-> follows]

Put(f, k, v) == [x \in DOMAIN f \cup {k} |-> IF x = k THEN v ELSE f[x]]

\* every request leaves behind what it found
Found ==
    before' = [products_db |-> products_db, reviews_db |-> reviews_db,
               offers_db |-> offers_db, removed |-> removed]

UnchangedDbs == UNCHANGED <<products_db, reviews_db, offers_db>>
UnchangedHistory ==
    UNCHANGED <<created_ids, creation_order, origin, ever_removed, removed>>
\* a request that only answers: no dict changes, no clock reading
Answers(reply) ==
    /\ response' = reply
    /\ Found
    /\ UnchangedDbs
    /\ UnchangedHistory
    /\ UNCHANGED now
Fails(op, path_id, args, body, status) ==
    Answers(Reply(op, path_id, args, body, status, <<>>, <<>>))

Init ==
    /\ products_db = <<>>
    /\ reviews_db = <<>>
    /\ offers_db = <<>>
    /\ now = 0
    /\ response = Reply("none", NoPath, <<>>, NoBody, 0, <<>>, <<>>)
    /\ before = [products_db |-> <<>>, reviews_db |-> <<>>,
                 offers_db |-> <<>>, removed |-> {}]
    /\ created_ids = <<>>
    /\ creation_order = <<>>
    /\ origin = [review |-> <<>>, offer |-> <<>>]
    /\ ever_removed = {}
    /\ removed = {}

-----------------------------------------------------------------------------
(* The handlers. *)

\* POST /products
create_product(body, generated_id) ==
    IF ~ValidProduct(body)
    THEN Fails("create_product", NoPath, <<>>, body, 422)
    ELSE LET product == Product(body, generated_id, now) IN
         /\ now < MaxClock
         /\ products_db' = DictSet(products_db, product.product_id, product)
         /\ response' = Reply("create_product", NoPath, <<>>, body, 200,
                              <<product>>, <<>>)
         /\ Found
         /\ now' = now + 1
         /\ created_ids' = Append(created_ids, product.product_id)
         /\ removed' = removed \ {product.product_id}
         /\ UNCHANGED <<reviews_db, offers_db, creation_order, origin,
                        ever_removed>>

\* GET /products/{product_id}
fetch_product(product_id) ==
    LET follows == IF response.op = "create_product" /\ response.status = 200
                   THEN response.result ELSE <<>>
    IN  IF ~DictHas(products_db, product_id)
        THEN Answers(Reply("fetch_product", product_id, <<>>, NoBody, 404,
                           <<>>, follows))
        ELSE Answers(Reply("fetch_product", product_id, <<>>, NoBody, 200,
                           <<DictGet(products_db, product_id)>>, follows))

UpdatedProductWhole(updated_product, product, utcnow) ==
    [product EXCEPT !.updated_date = Num(utcnow)]
\* the five assignments of update_product
UpdatedProduct(updated_product, product, utcnow) ==
    [updated_product EXCEPT !.name = product.name,
                            !.description = product.description,
                            !.price = product.price,
                            !.updated_by = product.updated_by,
                            !.updated_date = Num(utcnow)]

update_product_write_first(product_id, body) ==
    IF ~ValidProduct(body)
    THEN Fails("update_product", product_id, <<>>, body, 422)
    ELSE LET product == Product(body, product_id, now)
             found == DictHas(products_db, product_id)
             updated_product ==
                 IF found
                 THEN UpdatedProduct(DictGet(products_db, product_id), product,
                                     now)
                 ELSE product
         IN
         /\ now < MaxClock
         /\ products_db' = DictSet(products_db, product_id, updated_product)
         /\ response' = IF found
                        THEN Reply("update_product", product_id, <<>>, body,
                                   200, <<updated_product>>, <<>>)
                        ELSE Reply("update_product", product_id, <<>>, body,
                                   404, <<>>, <<>>)
         /\ Found
         /\ now' = now + 1
         /\ UNCHANGED <<reviews_db, offers_db>>
         /\ UnchangedHistory
\* PUT /products/{product_id}
update_product(product_id, body) ==
    IF ~ValidProduct(body)
    THEN Fails("update_product", product_id, <<>>, body, 422)
    ELSE IF ~DictHas(products_db, product_id)
    THEN Fails("update_product", product_id, <<>>, body, 404)
    ELSE LET product == Product(body, product_id, now)
             updated_product ==
                 UpdatedProduct(DictGet(products_db, product_id), product, now)
         IN
         /\ now < MaxClock
         /\ products_db' = DictSet(products_db, product_id, updated_product)
         /\ response' = Reply("update_product", product_id, <<>>, body, 200,
                              <<updated_product>>, <<>>)
         /\ Found
         /\ now' = now + 1
         /\ UNCHANGED <<reviews_db, offers_db>>
         /\ UnchangedHistory

WithBodyProductId(record, product_id) == record
\* review.product_id = product_id, offer.product_id = product_id
WithProductId(record, product_id) == [record EXCEPT !.product_id = product_id]

\* the body of create_product_review after its check
StoreReview(product_id, body, generated_id) ==
    LET review ==
            WithProductId(ProductReview(body, generated_id, now), product_id)
    IN
    /\ now < MaxClock
    /\ reviews_db' = DictSet(reviews_db, review.review_id, review)
    /\ response' = Reply("create_product_review", product_id, <<>>, body, 200,
                         <<review>>, <<>>)
    /\ Found
    /\ now' = now + 1
    /\ creation_order' =
           Append(SelectSeq(creation_order, LAMBDA r : r # review.review_id),
                  review.review_id)
    /\ origin' = [origin EXCEPT !.review =
           Put(@, review.review_id,
               [path_id |-> product_id,
                existed |-> DictHas(products_db, product_id)])]
    /\ UNCHANGED <<products_db, offers_db, created_ids, ever_removed, removed>>

create_product_review_unchecked(product_id, body, generated_id) ==
    IF ~ValidProductReview(body)
    THEN Fails("create_product_review", product_id, <<>>, body, 422)
    ELSE StoreReview(product_id, body, generated_id)
\* POST /products/{product_id}/reviews
create_product_review(product_id, body, generated_id) ==
    IF ~ValidProductReview(body)
    THEN Fails("create_product_review", product_id, <<>>, body, 422)
    ELSE IF ~DictHas(products_db, product_id)
    THEN Fails("create_product_review", product_id, <<>>, body, 404)
    ELSE StoreReview(product_id, body, generated_id)

\* POST /products/{product_id}/offers
create_offer(product_id, body, generated_id) ==
    IF ~ValidOffer(body)
    THEN Fails("create_offer", product_id, <<>>, body, 422)
    ELSE IF ~DictHas(products_db, product_id)
    THEN Fails("create_offer", product_id, <<>>, body, 404)
    ELSE LET offer ==
                 WithProductId(Offer(body, generated_id, now), product_id)
         IN
         /\ now < MaxClock
         /\ offers_db' = DictSet(offers_db, offer.offer_id, offer)
         /\ response' = Reply("create_offer", product_id, <<>>, body, 200,
                              <<offer>>, <<>>)
         /\ Found
         /\ now' = now + 1
         /\ origin' = [origin EXCEPT !.offer =
                Put(@, offer.offer_id,
                    [path_id |-> product_id,
                     existed |-> DictHas(products_db, product_id)])]
         /\ UNCHANGED <<products_db, reviews_db, created_ids, creation_order,
                        ever_removed, removed>>

\* GET /products/{product_id}/reviews?skip=&limit=
list_product_reviews(product_id, skip, limit) ==
    IF ~ValidQuery(skip, limit)
    THEN Fails("list_product_reviews", product_id, <<>>, NoBody, 422)
    ELSE IF ~DictHas(products_db, product_id)
    THEN Fails("list_product_reviews", product_id, <<skip, limit>>, NoBody,
               404)
    ELSE LET reviews == SelectSeq(DictValues(reviews_db),
                                  LAMBDA review : review.product_id = product_id)
         IN  Answers(Reply("list_product_reviews", product_id,
                           <<skip, limit>>, NoBody, 200,
                           Slice(reviews, skip, skip + limit), <<>>))

\* DELETE /products/{product_id}
remove_old_product(product_id) ==
    IF ~DictHas(products_db, product_id)
    THEN Fails("remove_old_product", product_id, <<>>, NoBody, 404)
    ELSE /\ now < MaxClock
         /\ products_db' = DictDel(products_db, product_id)
         /\ response' = Reply("remove_old_product", product_id, <<>>, NoBody,
                              200,
                              <<[message |-> "Product removed successfully"]>>,
                              <<>>)
         /\ Found
         /\ now' = now + 1
         /\ ever_removed' = ever_removed \cup {product_id}
         /\ removed' = removed \cup {product_id}
         /\ UNCHANGED <<reviews_db, offers_db, created_ids, creation_order,
                        origin>>

Next ==
    \/ \E body \in CreateBodies :
          \E generated_id \in
                DefaultFactory(body.product_id, AlphanumericIds,
                               DictKeys(products_db) \cup
                               {created_ids[i] : i \in 1..Len(created_ids)}) :
             create_product(body, generated_id)
    \/ \E product_id \in PathProductIds : fetch_product(product_id)
    \/ \E product_id \in PathProductIds, body \in UpdateBodies :
          update_product(product_id, body)
    \/ \E product_id \in PathProductIds, body \in ReviewBodies :
          \E generated_id \in
                DefaultFactory(body.review_id, Uuids, DictKeys(reviews_db)) :
             create_product_review(product_id, body, generated_id)
    \/ \E product_id \in PathProductIds, body \in OfferBodies :
          \E generated_id \in
                DefaultFactory(body.offer_id, Uuids, DictKeys(offers_db)) :
             create_offer(product_id, body, generated_id)
    \/ \E product_id \in PathProductIds, skip \in -1..MaxSkip,
          limit \in 0..MaxLimit :
          list_product_reviews(product_id, skip, limit)
    \/ \E product_id \in PathProductIds : remove_old_product(product_id)

Spec == Init /\ [][Next]_vars

-----------------------------------------------------------------------------
(* The claims.  Their formulas read the dicts directly, through the         *)
(* operators below, and not through the operators the handlers use; what a  *)
(* request found comes from the history variable before.                    *)

KeysIn(d) == {d[i].key : i \in 1..Len(d)}
Stored(d) == {d[i] : i \in 1..Len(d)}
ValueIn(d, k) == (CHOOSE e \in Stored(d) : e.key = k).value
SameDbs ==
    /\ products_db = before.products_db
    /\ reviews_db = before.reviews_db
    /\ offers_db = before.offers_db

\* C1 (as claimed): every successful create_product returns a product_id that
\* is not empty and differs from the product_id every earlier successful
\* create_product returned.
C1_ReturnedIdsUniqueNonEmpty ==
    \A i \in 1..Len(created_ids) :
        /\ created_ids[i] # ""
        /\ \A j \in 1..(i - 1) : created_ids[j] # created_ids[i]

\* C2 (as claimed): a review stored under a review_id, and an offer stored
\* under an offer_id, is still stored under that id, unchanged, after any
\* further request.
C2_ReviewsAndOffersImmutable ==
    /\ \A e \in Stored(before.reviews_db) :
          e.key \in KeysIn(reviews_db) /\ ValueIn(reviews_db, e.key) = e.value
    /\ \A e \in Stored(before.offers_db) :
          e.key \in KeysIn(offers_db) /\ ValueIn(offers_db, e.key) = e.value

\* C3 (as claimed): create_product_review and create_offer for a product_id
\* that is no key of products_db answer 404, whatever the body holds, and
\* store nothing.
C3_MissingProductAlways404 ==
    (/\ response.op \in {"create_product_review", "create_offer"}
     /\ response.path_id \notin KeysIn(before.products_db))
    => response.status = 404 /\ SameDbs

\* C3 (amended): create_product_review and create_offer for a product_id that
\* is no key of products_db answer 404 when the body passes validation and 422
\* when it does not, and store nothing in either case.
C3_MissingProduct404AfterValidation ==
    /\ (/\ response.op = "create_product_review"
        /\ response.path_id \notin KeysIn(before.products_db))
       => /\ response.status =
                IF ValidProductReview(response.body) THEN 404 ELSE 422
          /\ SameDbs
    /\ (/\ response.op = "create_offer"
        /\ response.path_id \notin KeysIn(before.products_db))
       => /\ response.status = IF ValidOffer(response.body) THEN 404 ELSE 422
          /\ SameDbs

\* C3 witness: a review with a valid body was refused with 404 for a product_id
\* that is no key, while another product is stored.
C3_Witness ==
    /\ response.op = "create_product_review"
    /\ ValidProductReview(response.body)
    /\ response.status = 404
    /\ response.path_id \notin KeysIn(before.products_db)
    /\ Len(products_db) > 0

\* C4: every stored review and offer carries the product_id of the path of the
\* call that stored it, and that product_id was a key of products_db then; a
\* different product_id in the body is not stored.
C4_StoredProductIdIsPathId ==
    /\ \A e \in Stored(reviews_db) :
          /\ e.key \in DOMAIN origin.review
          /\ e.value.product_id = origin.review[e.key].path_id
          /\ origin.review[e.key].existed
    /\ \A e \in Stored(offers_db) :
          /\ e.key \in DOMAIN origin.offer
          /\ e.value.product_id = origin.offer[e.key].path_id
          /\ origin.offer[e.key].existed
    /\ response.op \in {"create_product_review", "create_offer"}
       /\ response.status = 200
       => response.result[1].product_id = response.path_id

\* C4 witness: a review was just stored for the product of the path although
\* its body named another product, and an offer is stored for it too.
C4_Witness ==
    /\ response.op = "create_product_review"
    /\ response.status = 200
    /\ response.body.product_id.val # response.path_id
    /\ \E e \in Stored(reviews_db) : e.value.product_id = response.path_id
    /\ \E e \in Stored(offers_db) : e.value.product_id = response.path_id

\* the stored reviews of product_id, oldest creation first
CreatedFor(product_id) ==
    LET mine == SelectSeq(creation_order,
                     LAMBDA r : ValueIn(reviews_db, r).product_id = product_id)
    IN  [i \in 1..Len(mine) |-> ValueIn(reviews_db, mine[i])]
\* the elements of s at positions skip .. skip+limit-1, counted from 0
Page(s, skip, limit) ==
    LET rest == Len(s) - skip
        n == IF rest <= 0 THEN 0 ELSE IF limit < rest THEN limit ELSE rest
    IN  [i \in 1..n |-> s[skip + i]]

\* C5 (as claimed): for a stored product, skip >= 0 and limit > 0,
\* list_product_reviews answers 200 with the reviews of that product at
\* positions skip .. skip+limit-1 in the order of their creation.
C5_ListIsPageInCreationOrder ==
    (/\ response.op = "list_product_reviews"
     /\ response.status # 422
     /\ response.path_id \in KeysIn(before.products_db))
    => /\ response.status = 200
       /\ response.result =
             Page(CreatedFor(response.path_id), response.args[1],
                  response.args[2])

\* C6: a successful update_product takes name, description, price and
\* updated_by from the body and sets updated_date; product_id, created_by and
\* created_date of the stored record stay, whatever the body carries for them;
\* the other products, the reviews and the offers stay.
C6_UpdateFrame ==
    (response.op = "update_product" /\ response.status = 200) =>
        LET id == response.path_id
            body == response.body
            old == ValueIn(before.products_db, id)
            new == ValueIn(products_db, id)
        IN  /\ new.name = body.name.val
            /\ new.description = body.description.val
            /\ new.price = body.price.val
            /\ new.updated_by = body.updated_by
            /\ new.updated_date = Num(now - 1)
            /\ new.product_id = old.product_id
            /\ new.created_by = old.created_by
            /\ new.created_date = old.created_date
            /\ response.result = <<new>>
            /\ KeysIn(products_db) = KeysIn(before.products_db)
            /\ \A k \in KeysIn(products_db) \ {id} :
                  ValueIn(products_db, k) = ValueIn(before.products_db, k)
            /\ reviews_db = before.reviews_db
            /\ offers_db = before.offers_db

\* C6 witness: a product was updated by a body that carries another
\* product_id, created_by and created_date, next to a second product, a review
\* and an unchanged created_by.
C6_Witness ==
    /\ response.op = "update_product"
    /\ response.status = 200
    /\ response.body.product_id.val # response.path_id
    /\ response.body.created_by.val # response.result[1].created_by
    /\ response.body.name.val = response.result[1].name
    /\ Len(products_db) = 2
    /\ Len(reviews_db) > 0

\* C7 (as claimed): once remove_old_product has deleted a product, its reviews
\* stay stored and list_product_reviews for that product_id answers 404 in
\* every later state.
C7_NoListingAfterRemove ==
    /\ response.op = "remove_old_product" => reviews_db = before.reviews_db
    /\ (/\ response.op = "list_product_reviews"
        /\ response.status # 422
        /\ response.path_id \in ever_removed)
       => response.status = 404

\* C8: a successful remove_old_product deletes the entry of that key and
\* nothing else; for a key that is not stored it answers 404 and changes
\* nothing.
C8_RemoveFrame ==
    response.op = "remove_old_product" =>
        IF response.path_id \in KeysIn(before.products_db)
        THEN /\ response.status = 200
             /\ KeysIn(products_db) =
                   KeysIn(before.products_db) \ {response.path_id}
             /\ Len(products_db) = Len(before.products_db) - 1
             /\ \A k \in KeysIn(products_db) :
                   ValueIn(products_db, k) = ValueIn(before.products_db, k)
             /\ reviews_db = before.reviews_db
             /\ offers_db = before.offers_db
        ELSE response.status = 404 /\ SameDbs

\* C8 witness: a product that has a review and an offer was removed, and the
\* review and the offer are still stored.
C8_Witness ==
    /\ response.op = "remove_old_product"
    /\ response.status = 200
    /\ response.path_id \notin KeysIn(products_db)
    /\ \E e \in Stored(reviews_db) : e.value.product_id = response.path_id
    /\ \E e \in Stored(offers_db) : e.value.product_id = response.path_id

\* C9: fetch_product right after the create_product that returned the record
\* of that product_id answers 200 with an equal record; fetch_product for a
\* key that is not stored answers 404.
C9_FetchAfterCreate ==
    response.op = "fetch_product" =>
        /\ (response.follows # <<>>
            /\ response.follows[1].product_id = response.path_id)
           => response.status = 200 /\ response.result = response.follows
        /\ response.path_id \notin KeysIn(before.products_db)
           => response.status = 404

\* C9 witness: the second product was created and then fetched.
C9_Witness ==
    /\ response.op = "fetch_product"
    /\ response.status = 200
    /\ response.follows # <<>>
    /\ response.follows[1].product_id = response.path_id
    /\ Len(products_db) = 2
    /\ products_db[2].key = response.path_id

\* C10 (as claimed): after a successful remove_old_product(id) and until a
\* create_product for id, fetch_product, update_product and remove_old_product
\* for id answer 404.
C10_NotFoundAfterRemove ==
    (/\ response.op \in {"fetch_product", "update_product",
                         "remove_old_product"}
     /\ response.path_id \in before.removed)
    => response.status = 404

\* C10 (amended): after a successful remove_old_product(id) and until a
\* create_product for id, fetch_product and remove_old_product for id answer
\* 404, and so does update_product with a body that passes validation; with a
\* body that does not, update_product answers 422.
C10_NotFoundAfterRemoveAndValidation ==
    /\ (/\ response.op \in {"fetch_product", "remove_old_product"}
        /\ response.path_id \in before.removed)
       => response.status = 404
    /\ (/\ response.op = "update_product"
        /\ response.path_id \in before.removed)
       => response.status = IF ValidProduct(response.body) THEN 404 ELSE 422

\* C10 witness: a removed product was asked for again with a valid update.
C10_Witness ==
    /\ response.op = "update_product"
    /\ ValidProduct(response.body)
    /\ response.status = 404
    /\ response.path_id \in before.removed

\* C11: a request that ends in a failure (404 or 422) leaves products_db,
\* reviews_db and offers_db as it found them; so update_product for an
\* absent id or with a non-numeric price, and create_product_review with a
\* non-integer rating.
C11_FailureChangesNothing ==
    response.status \in {404, 422} =>
        /\ products_db = before.products_db
        /\ reviews_db = before.reviews_db
        /\ offers_db = before.offers_db

\* C11 witness: update_product with a non-numeric price was refused for a
\* stored product that has a review.
C11_Witness ==
    /\ response.op = "update_product"
    /\ response.status = 422
    /\ response.body.price.kind = "string"
    /\ response.path_id \in KeysIn(products_db)
    /\ \E e \in Stored(reviews_db) : e.value.product_id = response.path_id

====
